---- MODULE Spec2Model ----
(***************************************************************************)
(* Credential lifecycle of the auth service: token issuance                *)
(* (create_token), the authentication guard (verify_token), the admin gate *)
(* (admin_required), the e-mail token check (verify_token_email) and the   *)
(* resources that write the BLACKLIST_TOKEN_ entries of the shared cache.  *)
(* Event dispatch: the producer threads the requests start                 *)
(* (KafkaService.producer), the broker's channel, the subscriber loop      *)
(* (KafkaService.consumer) and the gateway's request middleware.           *)
(* Concurrency and caching: the path-token requests run one statement at   *)
(* a time, and UserMeResource.get behind cache.cached.                     *)
(*                                                                         *)
(* Time is counted in days: ACCESS_TOKEN_EXPIRE is 30 days and the         *)
(* action-token blacklist entry lives 60 * 60 * 24 * 7 seconds = 7 days.   *)
(*                                                                         *)
(* A string is a sequence of atoms.  The atom Bearer is the substring      *)
(* 'Bearer '; every other atom is a token body: a signed token (its        *)
(* payload and the key that signed it) or text that is no token at all.    *)
(***************************************************************************)
EXTENDS Integers, Sequences, FiniteSets, TLC

VARIABLES
    now,              \* the clock (utcnow), in days
    default_timeout,  \* the cache's configured default timeout, in days
    cache,            \* the shared cache: key -> [value, expires]
    email_valid,      \* UserModel.email_valid of every user
    issued,           \* the tokens create_token has returned: token -> day
    signed,           \* the claim set create_token was given: token -> dict
    started,          \* the producer threads started, in the order of start()
    logged_out,       \* tokens with which LogoutResource.get answered 200
    consumed,         \* path tokens with which reset/validate answered 200
    last,             \* the last request and the response it got
    broker,           \* the broker accepts connections: "up" or "down"
    flips,            \* how often the broker's availability has changed
    channel,          \* the records of the subscribed topic, in arrival order
    printed,          \* what producer and consumer have printed
    subscriber,       \* KafkaService.consumer: where it is in its code
    gateway,          \* the gateway's last request (flask.request)
    inflight          \* the path-token requests served statement by statement

vars == <<now, default_timeout, cache, email_valid, issued, signed, started,
          logged_out, consumed, last, broker, flips, channel, printed,
          subscriber, gateway, inflight>>

\* the state of event dispatch and of the requests in flight
dvars == <<broker, flips, channel, printed, subscriber, gateway, inflight>>

----------------------------------------------------------------------------
(* Bounds of the model *)

MaxTime == 1
MaxTokens == 1
MaxDefaultTimeout == 1
MaxLongTime == 31
MaxLongIssueTime == 0
MaxLongTokens == 1
MaxThreads == 2
MaxPublish == 1
MaxFlips == 1
MaxRequests == 2
MaxHandlers == 2
MaxSessions == 2
MaxSessionTime == 1

(* Program constants *)

ACCESS_TOKEN_EXPIRE == 30
BLACKLIST_TIMEOUT == 7

\* timeout=60 of cache.cached, in seconds: less than a day, the entry is
\* gone at the next tick of the clock
CACHED_TIMEOUT == 1

----------------------------------------------------------------------------
(* Users (UserModel) *)

Users == {"u1", "adm"}

EmailOf(u) == IF u = "u1" THEN "u1@mail" ELSE "adm@mail"

None == "None"

get_by_email(e) ==
    IF \E u \in Users : EmailOf(u) = e
    THEN CHOOSE u \in Users : EmailOf(u) = e
    ELSE None

to_json(u) == [uuid |-> u, is_admin |-> (u = "adm"), email |-> EmailOf(u)]

----------------------------------------------------------------------------
(* Strings *)

Bearer == [kind |-> "Bearer "]

Garbage == [kind |-> "text"]

startswith(s, a) == Len(s) > 0 /\ s[1] = a

\* str.replace('Bearer ', ''): every occurrence is removed
replace(s) == SelectSeq(s, LAMBDA a : a # Bearer)

BlacklistKey(s) == <<"BLACKLIST_TOKEN_">> \o s

\* Python truth value of a string
Truthy(s) == s # <<>>

----------------------------------------------------------------------------
(* Responses *)

\* ({'message': message}, status)
Resp(message, status) == [status |-> status, body |-> [message |-> message]]

\* ({'user': user_data}, 200)
UserResp(user_data) == [status |-> 200, body |-> [user |-> user_data]]

\* an exception that leaves the view function: the framework answers 500
Unhandled == [status |-> 500, body |-> [message |-> "Internal Server Error"]]

NoResp == [status |-> 0, body |-> [message |-> "-"]]

\* what a decorator or a function does: returns a value, calls the wrapped
\* function, or raises
Return(v) == [kind |-> "return", value |-> v]

Call(args) == [kind |-> "call", args |-> args]

Raise(e) == [kind |-> "raise", error |-> e]

----------------------------------------------------------------------------
(* Python values *)

\* a (body, status) tuple as returned by verify_token_email on failure
IsTuple(v) == "status" \in DOMAIN v

\* bool(v) of a tuple of two items or of a dict
PyTruthy(v) == IsTuple(v) \/ DOMAIN v # {}

\* v[k] evaluates (no TypeError for a tuple, no KeyError for a dict)
HasItem(v, k) == ~IsTuple(v) /\ k \in DOMAIN v

SetItem(d, k, v) == [x \in DOMAIN d \cup {k} |-> IF x = k THEN v ELSE d[x]]

----------------------------------------------------------------------------
(* The cache (src.extensions.flask_cache) *)

\* cache.get(key): the value, or None when the key is absent
cache_get(key) ==
    IF key \in DOMAIN cache
    THEN [hit |-> TRUE, value |-> cache[key].value]
    ELSE [hit |-> FALSE, value |-> <<>>]

\* "if cache_token:" None and the empty string are false
CacheTruthy(r) == r.hit /\ Truthy(r.value)

\* cache.set(key, value, timeout): inserts or overwrites the entry
cache_set(c, key, value, timeout) ==
    [k \in DOMAIN c \cup {key} |->
        IF k = key THEN [value |-> value, expires |-> now + timeout] ELSE c[k]]

\* the store drops an entry when its time to live has elapsed
Expire(c, t) == [k \in {x \in DOMAIN c : c[x].expires > t} |-> c[k]]

----------------------------------------------------------------------------
(* Claims codec (jwt, create_token) *)

SECRET_KEY == "SECRET_KEY"

\* datetime values: utcnow(), dt + timedelta(days), and the number
\* calendar.timegm(dt.utctimetuple()) the codec writes for a datetime
Datetime(day) == [type |-> "datetime", day |-> day]

utcnow == Datetime(now)

timedelta(dt, days) == Datetime(dt.day + days)

timegm(dt) == dt.day

\* the claims as the codec serialises them: a datetime exp becomes a number,
\* the other claims (strings, booleans) are written as they are
to_jwt_claims(payload) ==
    [k \in DOMAIN payload |->
        IF k = "exp" THEN timegm(payload[k]) ELSE payload[k]]

\* jwt.encode that also writes an iat claim
jwt_encode_with_iat(payload, key) ==
    <<[kind |-> "jwt",
       payload |-> [k \in DOMAIN payload \cup {"iat"} |->
                        IF k = "iat" THEN now
                        ELSE to_jwt_claims(payload)[k]],
       key |-> key]>>

\* jwt.encode(payload, key): deterministic, the token carries the serialised
\* claims and is bound to the signing key
jwt_encode(payload, key) ==
    <<[kind |-> "jwt", payload |-> to_jwt_claims(payload), key |-> key]>>

\* jwt_decode without the signature check
jwt_decode_no_signature(token, key) ==
    IF Len(token) # 1 \/ token[1].kind # "jwt"
    THEN Raise("DecodeError")
    ELSE IF "exp" \in DOMAIN token[1].payload /\ token[1].payload.exp <= now
    THEN Raise("ExpiredSignatureError")
    ELSE Return(token[1].payload)

\* jwt.decode(token, key): the payload, or an InvalidTokenError
\* (DecodeError, InvalidSignatureError, ExpiredSignatureError)
jwt_decode(token, key) ==
    IF Len(token) # 1 \/ token[1].kind # "jwt"
    THEN Raise("DecodeError")
    ELSE IF token[1].key # key
    THEN Raise("InvalidSignatureError")
    ELSE IF "exp" \in DOMAIN token[1].payload /\ token[1].payload.exp <= now
    THEN Raise("ExpiredSignatureError")
    ELSE Return(token[1].payload)

\* create_token with a lifetime twice as long
create_token_long(payload, signer_ok) ==
    IF ~signer_ok
    THEN Raise("Exception")
    ELSE Return(jwt_encode(SetItem(payload, "exp",
                                   timedelta(utcnow, 2 * ACCESS_TOKEN_EXPIRE)),
                           SECRET_KEY))

\* signer_ok: config_env('SECRET_KEY'), config_env('ALGORITHM') and
\* jwt.encode do not raise
create_token(payload, signer_ok) ==
    LET exp == timedelta(utcnow, ACCESS_TOKEN_EXPIRE)
        token == jwt_encode(SetItem(payload, "exp", exp), SECRET_KEY)
    IN  IF ~signer_ok
        THEN Raise("Exception")
        ELSE IF ~Truthy(token)
        THEN Return(Resp("ERR_TOKEN_GENERATE", 400))
        ELSE Return(token)

----------------------------------------------------------------------------
(* Authentication guard and admin gate (token_provider) *)

\* verify_token without the blacklist lookup
verify_token_no_blacklist(headers) ==
    IF "Authorization" \notin DOMAIN headers
    THEN Return(Resp("TOKEN_IS_MISSING", 401))
    ELSE IF ~startswith(headers.Authorization, Bearer)
    THEN Return(Resp("INVALID_TOKEN_FORMAT", 401))
    ELSE LET decoded == jwt_decode(replace(headers.Authorization), SECRET_KEY)
         IN  IF decoded.kind = "raise"
             THEN Return(Resp("TOKEN_IS_INVALID", 401))
             ELSE Call(<<decoded.value>>)

\* verify_token without the 'Bearer ' prefix check
verify_token_no_format(headers) ==
    IF "Authorization" \notin DOMAIN headers
    THEN Return(Resp("TOKEN_IS_MISSING", 401))
    ELSE LET token == replace(headers.Authorization)
             decoded == jwt_decode(token, SECRET_KEY)
         IN  IF CacheTruthy(cache_get(BlacklistKey(token)))
             THEN Return(Resp("TOKEN_IS_INVALID", 401))
             ELSE IF decoded.kind = "raise"
             THEN Return(Resp("TOKEN_IS_INVALID", 401))
             ELSE Call(<<decoded.value>>)

\* verify_token with a message of its own for a blacklisted token
verify_token_tells_revoked(headers) ==
    IF "Authorization" \notin DOMAIN headers
    THEN Return(Resp("TOKEN_IS_MISSING", 401))
    ELSE IF ~startswith(headers.Authorization, Bearer)
    THEN Return(Resp("INVALID_TOKEN_FORMAT", 401))
    ELSE LET token == replace(headers.Authorization)
             decoded == jwt_decode(token, SECRET_KEY)
         IN  IF CacheTruthy(cache_get(BlacklistKey(token)))
             THEN Return(Resp("TOKEN_IS_REVOKED", 401))
             ELSE IF decoded.kind = "raise"
             THEN Return(Resp("TOKEN_IS_INVALID", 401))
             ELSE Call(<<decoded.value>>)

verify_token(headers) ==
    IF "Authorization" \notin DOMAIN headers
    THEN Return(Resp("TOKEN_IS_MISSING", 401))
    ELSE IF ~startswith(headers.Authorization, Bearer)
    THEN Return(Resp("INVALID_TOKEN_FORMAT", 401))
    ELSE LET token == replace(headers.Authorization)
             cache_token == cache_get(BlacklistKey(token))
             decoded == jwt_decode(token, SECRET_KEY)
         IN  IF CacheTruthy(cache_token)
             THEN Return(Resp("TOKEN_IS_INVALID", 401))
             ELSE IF decoded.kind = "raise"
             THEN Return(Resp("TOKEN_IS_INVALID", 401))
             ELSE Call(<<decoded.value>>)

verify_token_email(token) ==
    LET decoded == jwt_decode(replace(token), SECRET_KEY)
    IN  IF decoded.kind = "raise"
        THEN Resp("TOKEN_IS_INVALID", 401)
        ELSE decoded.value

\* admin_required that lets every authenticated caller through
admin_required_any(args) ==
    IF "is_admin" \notin DOMAIN args[1]
    THEN Raise("KeyError")
    ELSE Call(args)

admin_required(args) ==
    IF "is_admin" \notin DOMAIN args[1]
    THEN Raise("KeyError")
    ELSE IF ~args[1].is_admin
    THEN Return(Resp("UNAUTHORIZED_USER", 401))
    ELSE Call(args)

----------------------------------------------------------------------------
(* Resources (usercontroller) *)

\* UserGetSchema().dump(obj): the user fields obj has
user_schema_dump(obj) ==
    [k \in DOMAIN obj \cap {"uuid", "email", "is_admin"} |-> obj[k]]

\* what a view function leaves behind: its response and the cache
Done(resp, c) == [resp |-> resp, cache |-> c]

ValidateTokenResource_get(args) ==
    IF HasItem(args[1], "uuid")
    THEN Done(UserResp(user_schema_dump(args[1])), cache)
    ELSE Done(Resp("INTERNAL_SERVER_ERROR", 500), cache)

ValidateAdminResource_get(args) ==
    IF HasItem(args[1], "uuid")
    THEN Done(UserResp(user_schema_dump(args[1])), cache)
    ELSE Done(Resp("INTERNAL_SERVER_ERROR", 500), cache)

\* the key cache.cached(query_string=True) makes for a request: a hash of
\* the request's path and query string
make_cache_key(path) == <<"flask_cache_view/", [kind |-> path]>>

\* @cache.cached(timeout=60, query_string=True) around a view function:
\* the value stored under the request's key if there is one, otherwise the
\* function's return value, which is stored.  f: what the function returns
\* when it is called
cached(path, f) ==
    LET key == make_cache_key(path)
    IN  IF key \in DOMAIN cache
        THEN Done(cache[key].value, cache)
        ELSE Done(f.resp, cache_set(f.cache, key, f.resp, CACHED_TIMEOUT))

UserMeResource_get(args) ==
    cached("/users/me/",
           IF HasItem(args[1], "uuid")
           THEN Done(UserResp(user_schema_dump(args[1])), cache)
           ELSE Done(Resp("INTERNAL_SERVER_ERROR", 500), cache))

\* LogoutResource.get that revokes every token issued to the user
LogoutResource_get_user(args, headers) ==
    LET token == replace(headers.Authorization)
        mine == {t \in DOMAIN issued :
                    /\ HasItem(args[1], "uuid")
                    /\ HasItem(t[1].payload, "uuid")
                    /\ t[1].payload.uuid = args[1].uuid} \cup {token}
        c == [k \in DOMAIN cache \cup {BlacklistKey(t) : t \in mine} |->
                IF \E t \in mine : k = BlacklistKey(t)
                THEN [value |-> (CHOOSE t \in mine : k = BlacklistKey(t)),
                      expires |-> now + default_timeout]
                ELSE cache[k]]
    IN  IF HasItem(args[1], "uuid")
        THEN Done(Resp("LOGOUT_SUCCESSFULLY", 200), c)
        ELSE Done(Resp("INTERNAL_SERVER_ERROR", 500), c)

\* LogoutResource.get writing with cache.add: an entry that is present is
\* an error
LogoutResource_get_add(args, headers) ==
    LET token == replace(headers.Authorization)
        c == cache_set(cache, BlacklistKey(token), token, default_timeout)
    IN  IF BlacklistKey(token) \in DOMAIN cache
        THEN Done(Resp("INTERNAL_SERVER_ERROR", 500), cache)
        ELSE IF HasItem(args[1], "uuid")
        THEN Done(Resp("LOGOUT_SUCCESSFULLY", 200), c)
        ELSE Done(Resp("INTERNAL_SERVER_ERROR", 500), c)

LogoutResource_get(args, headers) ==
    LET token == replace(headers.Authorization)
        c == cache_set(cache, BlacklistKey(token), token, default_timeout)
    IN  IF HasItem(args[1], "uuid")
        THEN Done(Resp("LOGOUT_SUCCESSFULLY", 200), c)
        ELSE Done(Resp("INTERNAL_SERVER_ERROR", 500), c)

\* ResetPasswordResource.get that marks the token as used as soon as it
\* has verified it
ResetPasswordResource_get_marks(token) ==
    LET cache_token == cache_get(BlacklistKey(token))
        user_authenticated == verify_token_email(token)
        user == get_by_email(user_authenticated.email)
        marked == cache_set(cache, BlacklistKey(token), token,
                            BLACKLIST_TIMEOUT)
        looked == [resp |-> NoResp, cache |-> marked, lookup |-> TRUE]
        early == [resp |-> NoResp, cache |-> cache, lookup |-> FALSE]
    IN  IF CacheTruthy(cache_token)
        THEN [early EXCEPT !.resp = Resp("TOKEN_IS_INVALID", 401)]
        ELSE IF ~PyTruthy(user_authenticated)
        THEN [early EXCEPT !.resp = Resp("TOKEN_IS_INVALID", 401)]
        ELSE IF ~HasItem(user_authenticated, "email")
        THEN [early EXCEPT !.resp = Resp("INTERNAL_SERVER_ERROR", 500)]
        ELSE IF user = None
        THEN [looked EXCEPT !.resp = Resp("USER_NOT_FOUND", 404)]
        ELSE IF ~email_valid[user]
        THEN [looked EXCEPT !.resp = Resp("USER_NON_VALIDATED_EMAIL", 400)]
        ELSE [looked EXCEPT !.resp = Resp("USER_VALIDATED_SUCCESSFULLY", 200)]

ResetPasswordResource_get(token) ==
    LET cache_token == cache_get(BlacklistKey(token))
        user_authenticated == verify_token_email(token)
        user == get_by_email(user_authenticated.email)
        looked == [resp |-> NoResp, cache |-> cache, lookup |-> TRUE]
        early == [resp |-> NoResp, cache |-> cache, lookup |-> FALSE]
    IN  IF CacheTruthy(cache_token)
        THEN [early EXCEPT !.resp = Resp("TOKEN_IS_INVALID", 401)]
        ELSE IF ~PyTruthy(user_authenticated)
        THEN [early EXCEPT !.resp = Resp("TOKEN_IS_INVALID", 401)]
        ELSE IF ~HasItem(user_authenticated, "email")
        THEN [early EXCEPT !.resp = Resp("INTERNAL_SERVER_ERROR", 500)]
        ELSE IF user = None
        THEN [looked EXCEPT !.resp = Resp("USER_NOT_FOUND", 404)]
        ELSE IF ~email_valid[user]
        THEN [looked EXCEPT !.resp = Resp("USER_NON_VALIDATED_EMAIL", 400)]
        ELSE [looked EXCEPT
                !.cache = cache_set(cache, BlacklistKey(token), token,
                                    BLACKLIST_TIMEOUT),
                !.resp = Resp("USER_VALIDATED_SUCCESSFULLY", 200)]

\* db_ok: UserModel.validate_email(user) does not raise
ValidateEmailResource_get(token, db_ok) ==
    LET cache_token == cache_get(BlacklistKey(token))
        user_authenticated == verify_token_email(token)
        user == get_by_email(user_authenticated.email)
        looked == [resp |-> NoResp, cache |-> cache, lookup |-> TRUE,
                   validated |-> None]
        early == [looked EXCEPT !.lookup = FALSE]
    IN  IF CacheTruthy(cache_token)
        THEN [early EXCEPT !.resp = Resp("TOKEN_IS_INVALID", 401)]
        ELSE IF ~PyTruthy(user_authenticated)
        THEN [early EXCEPT !.resp = Resp("TOKEN_IS_INVALID", 401)]
        ELSE IF ~HasItem(user_authenticated, "email")
        THEN [early EXCEPT !.resp = Resp("INTERNAL_SERVER_ERROR", 500)]
        ELSE IF user = None
        THEN [looked EXCEPT !.resp = Resp("USER_NOT_FOUND", 404)]
        ELSE IF email_valid[user]
        THEN [looked EXCEPT !.resp = Resp("USER_ALREADY_VALIDATED", 400)]
        ELSE IF ~db_ok
        THEN [looked EXCEPT !.resp = Resp("INTERNAL_SERVER_ERROR", 500)]
        ELSE [looked EXCEPT
                !.validated = user,
                !.cache = cache_set(cache, BlacklistKey(token), token,
                                    BLACKLIST_TIMEOUT),
                !.resp = Resp("USER_VALIDATED_SUCCESSFULLY", 200)]

----------------------------------------------------------------------------
(* Requests *)

Routes == {"ValidateTokenResource.get", "ValidateAdminResource.get",
           "LogoutResource.get"}

\* the routes decorated with verify_token and then admin_required
AdminRoutes == {"ValidateAdminResource.get"}

\* the view function of a guarded route: verify_token around admin_required
\* (on the admin routes) around the resource's method.  auth: verify_token
\* called the function it wraps, with args; ran: the method ran, with hargs
View(route, headers) ==
    LET guard == verify_token(headers)
        gate == IF route \in AdminRoutes
                THEN admin_required(guard.args)
                ELSE Call(guard.args)
        body == CASE route = "ValidateTokenResource.get" ->
                        ValidateTokenResource_get(gate.args)
                  [] route = "ValidateAdminResource.get" ->
                        ValidateAdminResource_get(gate.args)
                  [] route = "LogoutResource.get" ->
                        LogoutResource_get(gate.args, headers)
                  [] route = "UserMeResource.get" ->
                        UserMeResource_get(gate.args)
        rejected == [resp |-> NoResp, cache |-> cache, auth |-> FALSE,
                     args |-> <<>>, ran |-> FALSE, hargs |-> <<>>]
        gated == [rejected EXCEPT !.auth = TRUE, !.args = guard.args]
    IN  IF guard.kind = "return"
        THEN [rejected EXCEPT !.resp = guard.value]
        ELSE IF gate.kind = "return"
        THEN [gated EXCEPT !.resp = gate.value]
        ELSE IF gate.kind = "raise"
        THEN [gated EXCEPT !.resp = Unhandled]
        ELSE [gated EXCEPT !.resp = body.resp, !.cache = body.cache,
                           !.ran = TRUE, !.hargs = gate.args]

\* the tokens create_token has returned
Tokens == DOMAIN issued

\* a forged token: an administrator's claims signed with another key
ForgedToken ==
    jwt_encode(SetItem(to_json("adm"), "exp",
                       Datetime(2 * ACCESS_TOKEN_EXPIRE)),
               "OTHER_KEY")

\* a session token the service issued ACCESS_TOKEN_EXPIRE + 1 days before
\* day 0: correctly signed, and expired
OldToken ==
    jwt_encode(SetItem(to_json("u1"), "exp", Datetime(0 - 1)), SECRET_KEY)

\* the token strings a client can present
Presentable == Tokens \cup {ForgedToken, OldToken, <<Garbage>>}

\* the values of the Authorization header a client can send
AuthValues ==
    Presentable \cup {<<Bearer>> \o t : t \in Presentable} \cup {<<Bearer>>}

NoAuth == [Host |-> "auth"]

WithAuth(a) == [Host |-> "auth", Authorization |-> a]

HeaderSets == {NoAuth} \cup {WithAuth(a) : a \in AuthValues}

Emails == {EmailOf(u) : u \in Users} \cup {"nobody@mail"}

----------------------------------------------------------------------------
(* Event dispatch: state *)

\* bytes: str.encode('utf-8') and bytes.decode('utf-8')
encode(s) == [bytes |-> s]

decode(b) == b.bytes

\* json.dumps(v) and json.loads(s) of a dict of strings
json_dumps(v) == [json |-> v]

json_loads(s) == s.json

\* config_producer['value_serializer']
value_serializer(v) == encode(json_dumps(v))

\* the topic KafkaService.consumer is called with
SubscribedTopic == "TOPIC_SEND_EMAIL_RECOVERY_PASSWORD"

NoMessage == [topic |-> "-", offset |-> 0]

\* KafkaService.consumer before its first statement.  position: the
\* consumer's offset in the subscribed topic; message: the loop variable;
\* handled: the calls of callback so far
NotStarted ==
    [pc |-> "probe", position |-> 0, message |-> NoMessage, handled |-> <<>>]

\* flask.request of the gateway before any request.  endpoint, url_rule:
\* the view and the rule the URL matched, None when it matched none;
\* assigned: how often request.transaction_id was set; status: the status
\* code of the view's response; returned: the one of the response
\* register_request_log returned; thread: the thread it started for the
\* request; requests, generated: the requests served and the uuid4 values
\* drawn so far
NoRequest ==
    [headers |-> [Host |-> "gateway"], endpoint |-> "-", url_rule |-> "-",
     transaction_id |-> None, assigned |-> 0, status |-> 0, returned |-> 0,
     thread |-> 0, requests |-> 0, generated |-> 0]

InitEvents ==
    /\ flips = 0
    /\ channel = <<>>
    /\ printed = <<>>
    /\ subscriber = NotStarted
    /\ gateway = NoRequest
    /\ inflight = <<>>

\* the last request (route, headers, path token) and its response, with what
\* was observed while it was served: black, was_logged_out, was_consumed are
\* the state of the presented token before the request; auth, args, ran,
\* hargs are View's; lookup: the resource looked the user up; vte: what
\* verify_token_email returned, when it was called; email: data['email'];
\* signing_failed: create_token was called and raised
NoLast ==
    [route |-> "-", headers |-> NoAuth, token |-> <<>>, resp |-> NoResp,
     email |-> "-", signing_failed |-> FALSE,
     black |-> FALSE, was_logged_out |-> FALSE, was_consumed |-> FALSE,
     auth |-> FALSE, args |-> <<>>, ran |-> FALSE, hargs |-> <<>>,
     lookup |-> FALSE, vte |-> NoResp]

Init ==
    /\ now = 0
    /\ default_timeout \in 1..MaxDefaultTimeout
    /\ cache = [k \in {} |-> 0]
    /\ email_valid \in {f \in [Users -> BOOLEAN] : f["adm"]}
    /\ issued = [t \in {} |-> 0]
    /\ signed = [t \in {} |-> 0]
    /\ started = <<>>
    /\ logged_out = {}
    /\ consumed = {}
    /\ last = NoLast
    /\ broker = "up"
    /\ InitEvents

\* create_token returned token today
Issue(token) == [t \in DOMAIN issued \cup {token} |->
                    IF t = token THEN now ELSE issued[t]]

\* create_token was called with payload and returned token
Sign(token, payload) == [t \in DOMAIN signed \cup {token} |->
                            IF t = token THEN payload ELSE signed[t]]

Guarded(route, headers) ==
    LET v == View(route, headers)
        token == IF "Authorization" \in DOMAIN headers
                 THEN replace(headers.Authorization) ELSE <<>>
    IN  /\ cache' = v.cache
        /\ last' = [NoLast EXCEPT
                      !.route = route, !.headers = headers, !.token = token,
                      !.resp = v.resp,
                      !.black = BlacklistKey(token) \in DOMAIN cache,
                      !.was_logged_out = token \in logged_out,
                      !.was_consumed = token \in consumed,
                      !.auth = v.auth, !.args = v.args,
                      !.ran = v.ran, !.hargs = v.hargs]
        /\ logged_out' = IF route = "LogoutResource.get" /\ v.resp.status = 200
                         THEN logged_out \cup {token} ELSE logged_out
        /\ UNCHANGED <<now, default_timeout, email_valid, issued, signed,
                       started, consumed>>
        /\ UNCHANGED dvars

LoginResource_post(email, password_ok, signer_ok) ==
    LET user_db == get_by_email(email)
        created == create_token(to_json(user_db), signer_ok)
        token == created.value
        resp == IF user_db = None THEN Resp("INVALID_CREDENTIALS", 401)
                ELSE IF ~email_valid[user_db]
                THEN Resp("USER_NON_VALIDATED_EMAIL", 400)
                ELSE IF ~password_ok THEN Resp("INVALID_CREDENTIALS", 401)
                ELSE IF created.kind = "raise"
                THEN Resp("ERROR_CREATING_TOKEN", 401)
                ELSE [status |-> 200,
                      body |-> [token |-> <<Bearer>> \o token,
                                user |-> user_schema_dump(to_json(user_db))]]
    IN  /\ issued' = IF resp.status = 200 THEN Issue(token) ELSE issued
        /\ signed' = IF resp.status = 200
                     THEN Sign(token, to_json(user_db)) ELSE signed
        /\ last' = [NoLast EXCEPT
                      !.route = "LoginResource.post",
                      !.resp = resp, !.ran = TRUE, !.email = email,
                      !.signing_failed =
                            /\ user_db # None /\ email_valid[user_db]
                            /\ password_ok /\ created.kind = "raise"]
        /\ UNCHANGED <<now, default_timeout, cache, email_valid, started,
                       logged_out, consumed>>
        /\ UNCHANGED dvars

\* the arguments (topic, key, payload) of KafkaService().producer
Event(topic, user, transaction_id, email, subject, token) ==
    [topic |-> topic, key |-> user,
     value |-> [transaction_id |-> transaction_id, email |-> email,
                subject |-> subject, template |-> token]]

\* the producer called in the request's own thread: it has returned when
\* the request goes on
Thread_run(args) == Append(started, [args |-> args, pc |-> "done"])

\* Thread(target=KafkaService().producer, args=args).start(): the thread
\* is about to run the first statement of producer
Thread_start(args) == Append(started, [args |-> args, pc |-> "connect"])

ForgotPasswordResource_post(email, transaction_id, signer_ok) ==
    LET user == get_by_email(email)
        created == create_token([email |-> EmailOf(user)], signer_ok)
        token == created.value
        resp == IF user = None THEN Resp("USER_NOT_FOUND", 404)
                ELSE IF created.kind = "raise"
                THEN Resp("INTERNAL_SERVER_ERROR", 500)
                ELSE Resp("EMAIL_SENT_SUCCESSFULLY", 200)
    IN  /\ issued' = IF resp.status = 200 THEN Issue(token) ELSE issued
        /\ signed' = IF resp.status = 200
                     THEN Sign(token, [email |-> EmailOf(user)]) ELSE signed
        /\ started' = IF resp.status = 200
                      THEN Thread_start(
                             Event("TOPIC_SEND_EMAIL_RECOVERY_PASSWORD", user,
                                   transaction_id, email, "Recovey Password",
                                   token))
                      ELSE started
        /\ last' = [NoLast EXCEPT
                      !.route = "ForgotPasswordResource.post",
                      !.resp = resp, !.ran = TRUE, !.email = email,
                      !.signing_failed =
                            user # None /\ created.kind = "raise"]
        /\ UNCHANGED <<now, default_timeout, cache, email_valid, logged_out,
                       consumed>>
        /\ UNCHANGED dvars

SendEmailValidationResource_post(email, transaction_id, signer_ok) ==
    LET user == get_by_email(email)
        created == create_token([email |-> EmailOf(user)], signer_ok)
        token == created.value
        resp == IF user = None THEN Resp("USER_NOT_FOUND", 404)
                ELSE IF email_valid[user]
                THEN Resp("USER_ALREADY_VALIDATED", 400)
                ELSE IF created.kind = "raise"
                THEN Resp("INTERNAL_SERVER_ERROR", 500)
                ELSE Resp("EMAIL_SENT_SUCCESSFULLY", 200)
    IN  /\ issued' = IF resp.status = 200 THEN Issue(token) ELSE issued
        /\ signed' = IF resp.status = 200
                     THEN Sign(token, [email |-> EmailOf(user)]) ELSE signed
        /\ started' = IF resp.status = 200
                      THEN Thread_start(
                             Event("TOPIC_SEND_EMAIL_VALIDATION_ACCOUNT", user,
                                   transaction_id, email, "Account Validation",
                                   token))
                      ELSE started
        /\ last' = [NoLast EXCEPT
                      !.route = "SendEmailValidationResource.post",
                      !.resp = resp, !.ran = TRUE, !.email = email,
                      !.signing_failed =
                            /\ user # None /\ ~email_valid[user]
                            /\ created.kind = "raise"]
        /\ UNCHANGED <<now, default_timeout, cache, email_valid, logged_out,
                       consumed>>
        /\ UNCHANGED dvars

\* the path-token request as observed
PathLast(route, token, r) ==
    [NoLast EXCEPT
        !.route = route, !.token = token, !.resp = r.resp, !.ran = TRUE,
        !.black = BlacklistKey(token) \in DOMAIN cache,
        !.was_logged_out = token \in logged_out,
        !.was_consumed = token \in consumed,
        !.lookup = r.lookup,
        !.vte = IF CacheTruthy(cache_get(BlacklistKey(token)))
                THEN NoResp ELSE verify_token_email(token)]

ResetPassword(token) ==
    LET r == ResetPasswordResource_get(token)
    IN  /\ cache' = r.cache
        /\ consumed' = IF r.resp.status = 200
                       THEN consumed \cup {token} ELSE consumed
        /\ last' = PathLast("ResetPasswordResource.get", token, r)
        /\ UNCHANGED <<now, default_timeout, email_valid, issued, signed,
                       started, logged_out>>
        /\ UNCHANGED dvars

ValidateEmail(token, db_ok) ==
    LET r == ValidateEmailResource_get(token, db_ok)
    IN  /\ cache' = r.cache
        /\ email_valid' = IF r.validated = None THEN email_valid
                          ELSE [email_valid EXCEPT ![r.validated] = TRUE]
        /\ consumed' = IF r.resp.status = 200
                       THEN consumed \cup {token} ELSE consumed
        /\ last' = PathLast("ValidateEmailResource.get", token, r)
        /\ UNCHANGED <<now, default_timeout, issued, signed, started,
                       logged_out>>
        /\ UNCHANGED dvars

\* a day passes; the store drops the entries whose time to live has elapsed
Tick ==
    /\ now' = now + 1
    /\ cache' = Expire(cache, now + 1)
    /\ last' = NoLast
    /\ UNCHANGED <<default_timeout, email_valid, issued, signed, started,
                   logged_out, consumed>>
    /\ UNCHANGED dvars

\* the response has been delivered; the next request is observed
Deliver ==
    /\ last # NoLast
    /\ last' = NoLast
    /\ UNCHANGED <<now, default_timeout, cache, email_valid, issued, signed,
                   started, logged_out, consumed>>
    /\ UNCHANGED dvars

\* exploration bound on the issuing requests
Within(tokens, time) ==
    Cardinality(Tokens) < tokens /\ Len(started) < tokens /\ now <= time

\* Requests are observed one at a time: a request is served once the
\* previous response has been delivered
Next ==
    \/ \E route \in Routes, headers \in HeaderSets :
            last = NoLast /\ Guarded(route, headers)
    \/ \E email \in Emails, ok \in BOOLEAN, signer_ok \in BOOLEAN :
            /\ last = NoLast /\ Within(MaxTokens, MaxTime)
            /\ LoginResource_post(email, ok, signer_ok)
    \/ \E email \in Emails, signer_ok \in BOOLEAN :
            /\ last = NoLast /\ Within(MaxTokens, MaxTime)
            /\ ForgotPasswordResource_post(email, None, signer_ok)
    \/ \E email \in Emails, signer_ok \in BOOLEAN :
            /\ last = NoLast /\ Within(MaxTokens, MaxTime)
            /\ SendEmailValidationResource_post(email, None, signer_ok)
    \/ \E token \in Presentable : last = NoLast /\ ResetPassword(token)
    \/ \E token \in Presentable, db_ok \in BOOLEAN :
            last = NoLast /\ ValidateEmail(token, db_ok)
    \/ last = NoLast /\ now < MaxTime /\ Tick
    \/ Deliver

Spec == Init /\ [][Next]_vars

\* The lifetime of a token: the tokens are presented well formed, on the
\* routes that read or write the blacklist, until after they have expired
LongHeaderSets == {WithAuth(<<Bearer>> \o t) : t \in Tokens}

LongRoutes == {"ValidateTokenResource.get", "LogoutResource.get"}

UserEmails == {EmailOf(u) : u \in Users}

NextLong ==
    \/ \E route \in LongRoutes, headers \in LongHeaderSets :
            last = NoLast /\ Guarded(route, headers)
    \/ \E email \in UserEmails :
            /\ last = NoLast /\ Within(MaxLongTokens, MaxLongIssueTime)
            /\ LoginResource_post(email, TRUE, TRUE)
    \/ \E email \in UserEmails :
            /\ last = NoLast /\ Within(MaxLongTokens, MaxLongIssueTime)
            /\ ForgotPasswordResource_post(email, None, TRUE)
    \/ \E email \in UserEmails :
            /\ last = NoLast /\ Within(MaxLongTokens, MaxLongIssueTime)
            /\ SendEmailValidationResource_post(email, None, TRUE)
    \/ \E token \in Tokens : last = NoLast /\ ResetPassword(token)
    \/ \E token \in Tokens : last = NoLast /\ ValidateEmail(token, TRUE)
    \/ last = NoLast /\ now < MaxLongTime /\ Tick
    \/ Deliver

\* the cache's default timeout is the shortest one
InitLong == Init /\ default_timeout = 1

SpecLong == InitLong /\ [][NextLong]_vars

----------------------------------------------------------------------------
(* Event dispatch: the gateway's middleware *)

\* uuid.uuid4() as a string: the n-th value drawn
uuid4(n) == <<"uuid4-1", "uuid4-2", "uuid4-3", "uuid4-4">>[n]

\* request.headers.get(name): None when the header is absent
headers_get(headers, name) ==
    IF name \in DOMAIN headers THEN headers[name] ELSE None

\* Python truth value of headers.get(...): None and '' are false
HeaderTruthy(v) == v # None /\ v # ""

\* add_transaction_id that always generates the identifier
add_transaction_id_new(req) ==
    [req EXCEPT !.transaction_id = uuid4(req.generated + 1),
                !.generated = @ + 1, !.assigned = @ + 1]

\* before_request: add_transaction_id
add_transaction_id(req) ==
    IF HeaderTruthy(headers_get(req.headers, "X-TRANSACTION-ID"))
    THEN [req EXCEPT
            !.transaction_id = headers_get(req.headers, "X-TRANSACTION-ID"),
            !.assigned = @ + 1]
    ELSE [req EXCEPT !.transaction_id = uuid4(req.generated + 1),
                     !.generated = @ + 1, !.assigned = @ + 1]

\* the payload register_request_log builds (the fields the model follows)
request_log(req, status) ==
    [topic |-> "TOPIC_REQUESTS_LOG", key |-> "gateway",
     value |-> [service |-> "gateway",
                transaction_id |-> req.transaction_id,
                endpoint |-> IF req.url_rule # None THEN req.url_rule
                             ELSE "NOT_FOUND",
                status |-> status]]

\* register_request_log that logs the health probe as well
register_request_log_all(req, status) ==
    [response |-> status, threads |-> <<request_log(req, status)>>]

\* after_request: register_request_log(response).  threads: the arguments
\* of the thread it starts, if any
register_request_log(req, status) ==
    IF req.endpoint = "health"
    THEN [response |-> status, threads |-> <<>>]
    ELSE [response |-> status, threads |-> <<request_log(req, status)>>]

\* the values of X-TRANSACTION-ID a client sends: none, empty, an id
GatewayHeaderSets ==
    {[Host |-> "gateway"]} \cup
    {("Host" :> "gateway") @@ ("X-TRANSACTION-ID" :> v) : v \in {"", "tx-1"}}

\* request.endpoint: the views of the gateway, and None for a URL that
\* matches no rule
Endpoints == {"health", "users", None}

\* request.url_rule.rule of an endpoint
url_rule(endpoint) ==
    CASE endpoint = "health" -> "/health/"
      [] endpoint = "users" -> "/users/"
      [] OTHER -> None

\* the status code of the response the gateway makes for a request
ViewStatus(endpoint) == IF endpoint = None THEN 404 ELSE 200

\* one request through the gateway: add_transaction_id, start_timer, the
\* view (its answer is status), register_request_log
GatewayRequest(headers, endpoint, status) ==
    LET fresh == [NoRequest EXCEPT !.headers = headers,
                                   !.endpoint = endpoint,
                                   !.url_rule = url_rule(endpoint),
                                   !.requests = gateway.requests + 1,
                                   !.generated = gateway.generated]
        req == add_transaction_id(fresh)
        after == register_request_log(req, status)
        logs == after.threads # <<>>
    IN  /\ started' = IF logs THEN Thread_start(after.threads[1])
                      ELSE started
        /\ gateway' = [req EXCEPT !.status = status,
                                  !.returned = after.response,
                                  !.thread = IF logs THEN Len(started) + 1
                                             ELSE 0]
        /\ UNCHANGED <<now, default_timeout, cache, email_valid, issued,
                       signed, logged_out, consumed, last>>
        /\ UNCHANGED <<broker, flips, channel, printed, subscriber, inflight>>

----------------------------------------------------------------------------
(* Event dispatch: KafkaService.producer *)

\* the exception classes of kafka.errors the client raises, all of them
\* subclasses of KafkaError
KafkaErrors == {"KafkaError", "NoBrokersAvailable", "KafkaTimeoutError"}

\* a handler that catches NoBrokersAvailable only
producer_except_connect(e) == e = "NoBrokersAvailable"

\* "except KafkaError as e" of producer
producer_except(e) == e \in KafkaErrors

\* what the client raises at a statement of producer when the broker cannot
\* be reached
ClientError(pc) ==
    IF pc = "connect" THEN "NoBrokersAvailable" ELSE "KafkaTimeoutError"

\* the record a thread's send() hands to the client
Record(i) ==
    [topic |-> started[i].args.topic,
     key |-> encode(started[i].args.key),
     value |-> value_serializer(started[i].args.value),
     thread |-> i]

\* what a statement of producer leaves behind
Left(pc, ch, pr) == [pc |-> pc, channel |-> ch, printed |-> pr]

\* producer that starts over when the client raises after the connection
producer_retry(i, fails) ==
    LET pc == started[i].pc
        e == ClientError(pc)
    IN  IF fails
        THEN IF pc = "connect"
             THEN Left("done", channel,
                       Append(printed, [by |-> "producer", thread |-> i,
                                        error |-> e]))
             ELSE Left("connect", channel, printed)
        ELSE CASE pc = "connect" -> Left("send", channel, printed)
               [] pc = "send" -> Left("flush", channel, printed)
               [] pc = "flush" ->
                    Left("close",
                         IF broker = "up" THEN Append(channel, Record(i))
                         ELSE channel,
                         printed)
               [] pc = "close" -> Left("done", channel, printed)

\* producer that waits for the broker: it connects again until the
\* connection is made
producer_wait(i, fails) ==
    LET pc == started[i].pc
        e == ClientError(pc)
    IN  IF fails
        THEN IF pc = "connect"
             THEN Left("connect", channel, printed)
             ELSE Left("done", channel,
                       Append(printed, [by |-> "producer", thread |-> i,
                                        error |-> e]))
        ELSE CASE pc = "connect" -> Left("send", channel, printed)
               [] pc = "send" -> Left("flush", channel, printed)
               [] pc = "flush" ->
                    Left("close",
                         IF broker = "up" THEN Append(channel, Record(i))
                         ELSE channel,
                         printed)
               [] pc = "close" -> Left("done", channel, printed)

\* one statement of producer in thread i: KafkaProducer(**config), send,
\* flush, close.  fails: the client raises at this statement.  A record
\* that is flushed while the broker is up is on the channel; one flushed
\* while the broker is down is lost.
producer(i, fails) ==
    LET pc == started[i].pc
        e == ClientError(pc)
    IN  IF fails
        THEN IF producer_except(e)
             THEN Left("done", channel,
                       Append(printed, [by |-> "producer", thread |-> i,
                                        error |-> e]))
             ELSE Left("raised", channel, printed)
        ELSE CASE pc = "connect" -> Left("send", channel, printed)
               [] pc = "send" -> Left("flush", channel, printed)
               [] pc = "flush" ->
                    Left("close",
                         IF broker = "up" THEN Append(channel, Record(i))
                         ELSE channel,
                         printed)
               [] pc = "close" -> Left("done", channel, printed)

\* thread i runs its next statement.  The connection is refused exactly
\* while the broker is down; send, flush and close can time out at any time.
Producer(i, fails) ==
    LET left == producer(i, fails)
    IN  /\ started[i].pc \in {"connect", "send", "flush", "close"}
        /\ started[i].pc = "connect" => (fails <=> broker = "down")
        /\ started' = [started EXCEPT ![i].pc = left.pc]
        /\ channel' = left.channel
        /\ printed' = left.printed
        /\ UNCHANGED <<now, default_timeout, cache, email_valid, issued,
                       signed, logged_out, consumed, last>>
        /\ UNCHANGED <<broker, flips, subscriber, gateway, inflight>>

\* the broker stops or starts accepting connections
BrokerFlip ==
    /\ flips < MaxFlips
    /\ flips' = flips + 1
    /\ broker' = IF broker = "up" THEN "down" ELSE "up"
    /\ UNCHANGED <<now, default_timeout, cache, email_valid, issued, signed,
                   started, logged_out, consumed, last>>
    /\ UNCHANGED <<channel, printed, subscriber, gateway, inflight>>

----------------------------------------------------------------------------
(* Event dispatch: KafkaService.consumer *)

\* the records of the subscribed topic, in arrival order
Subscribed == SelectSeq(channel, LAMBDA r : r.topic = SubscribedTopic)

\* "except KafkaError as e" of consumer, around the whole loop
consumer_except(e) == e \in KafkaErrors

\* is_broker_available(): KafkaConsumer(**config) raises a KafkaError when
\* no broker answers
is_broker_available == broker = "up"

Printed(by, e) == Append(printed, [by |-> by, thread |-> 0, error |-> e])

\* one statement of consumer: the probe of wait_for_broker and its
\* sleep(1); KafkaConsumer(**config) and subscribe; the iterator's next
\* record; poll(0.5), whose records (skip of them) are dropped; the decoding
\* and callback(app, key, msg).  callback_raises: callback raises an
\* Exception, which "except KafkaError" does not catch.
consumer(skip, callback_raises) ==
    LET s == subscriber
        m == Subscribed[s.position + 1]
        call == [key |-> decode(s.message.key),
                 msg |-> json_loads(decode(s.message.value)),
                 offset |-> s.message.offset,
                 thread |-> s.message.thread,
                 raised |-> callback_raises]
    IN  CASE s.pc = "probe" ->
                [subscriber |->
                    [s EXCEPT !.pc = IF is_broker_available THEN "connect"
                                     ELSE "sleep"],
                 printed |-> printed]
          [] s.pc = "sleep" ->
                [subscriber |-> [s EXCEPT !.pc = "probe"],
                 printed |-> printed]
          [] s.pc = "connect" ->
                IF broker = "up"
                THEN [subscriber |-> [s EXCEPT !.pc = "iterate"],
                      printed |-> printed]
                ELSE IF consumer_except("NoBrokersAvailable")
                THEN [subscriber |-> [s EXCEPT !.pc = "returned"],
                      printed |-> Printed("consumer", "NoBrokersAvailable")]
                ELSE [subscriber |-> [s EXCEPT !.pc = "raised"],
                      printed |-> printed]
          [] s.pc = "iterate" ->
                [subscriber |->
                    [s EXCEPT !.pc = "poll", !.position = @ + 1,
                              !.message = [topic |-> m.topic, key |-> m.key,
                                           value |-> m.value,
                                           thread |-> m.thread,
                                           offset |-> s.position + 1]],
                 printed |-> printed]
          [] s.pc = "poll" ->
                [subscriber |-> [s EXCEPT !.pc = "callback",
                                          !.position = @ + skip],
                 printed |-> printed]
          [] s.pc = "callback" ->
                IF ~callback_raises
                THEN [subscriber |-> [s EXCEPT !.pc = "iterate",
                                               !.handled = Append(@, call)],
                      printed |-> printed]
                ELSE IF consumer_except("Exception")
                THEN [subscriber |-> [s EXCEPT !.pc = "returned",
                                               !.handled = Append(@, call)],
                      printed |-> Printed("consumer", "Exception")]
                ELSE [subscriber |-> [s EXCEPT !.pc = "raised",
                                               !.handled = Append(@, call)],
                      printed |-> printed]

\* the subscriber runs its next statement.  The iterator yields a record
\* when one lies beyond the position and the broker answers; poll returns
\* records that lie beyond the position, none while the broker is down.
Consumer(skip, callback_raises) ==
    LET left == consumer(skip, callback_raises)
    IN  /\ subscriber.pc \in {"probe", "sleep", "connect", "iterate", "poll",
                             "callback"}
        /\ subscriber.pc = "iterate" =>
                broker = "up" /\ subscriber.position < Len(Subscribed)
        /\ subscriber.pc = "poll" =>
                /\ skip <= Len(Subscribed) - subscriber.position
                /\ broker = "down" => skip = 0
        /\ subscriber.pc # "poll" => skip = 0
        /\ subscriber.pc # "callback" => ~callback_raises
        /\ subscriber' = left.subscriber
        /\ printed' = left.printed
        /\ UNCHANGED <<now, default_timeout, cache, email_valid, issued,
                       signed, started, logged_out, consumed, last>>
        /\ UNCHANGED <<broker, flips, channel, gateway, inflight>>

----------------------------------------------------------------------------
(* Event dispatch: specifications *)

DispatchEmails == {"u1@mail", "nobody@mail"}

\* the values of request.headers.get('X-TRANSACTION-ID') in the auth service
TransactionIds == {None, "tx-1"}

InitDispatch ==
    /\ now = 0
    /\ default_timeout = 1
    /\ cache = [k \in {} |-> 0]
    /\ email_valid = [u \in Users |-> u = "adm"]
    /\ issued = [t \in {} |-> 0]
    /\ signed = [t \in {} |-> 0]
    /\ started = <<>>
    /\ logged_out = {}
    /\ consumed = {}
    /\ last = NoLast
    /\ broker \in {"up", "down"}
    /\ InitEvents

\* The publishing side: the requests that start a producer thread, the
\* threads and the broker
NextProducer ==
    \/ \E email \in DispatchEmails, tx \in TransactionIds :
            /\ Len(started) < MaxPublish
            /\ ForgotPasswordResource_post(email, tx, TRUE)
    \/ \E email \in DispatchEmails :
            /\ Len(started) < MaxPublish
            /\ SendEmailValidationResource_post(email, None, TRUE)
    \/ \E headers \in GatewayHeaderSets, endpoint \in Endpoints :
            /\ Len(started) < MaxPublish /\ gateway.requests < MaxRequests
            /\ GatewayRequest(headers, endpoint, ViewStatus(endpoint))
    \/ \E i \in 1..Len(started), fails \in BOOLEAN : Producer(i, fails)
    \/ BrokerFlip

SpecProducer == InitDispatch /\ [][NextProducer]_vars

\* a started thread runs: every call of the client returns or raises
ProducerRuns(i) ==
    i <= Len(started) /\ \E fails \in BOOLEAN : Producer(i, fails)

\* The threads alone: one request of each kind that starts a thread, the
\* threads and the broker, every started thread running to its end
NextThreads ==
    \/ \E tx \in TransactionIds :
            /\ Len(started) < MaxPublish
            /\ ForgotPasswordResource_post("u1@mail", tx, TRUE)
    \/ \E tx \in TransactionIds :
            /\ Len(started) < MaxPublish
            /\ SendEmailValidationResource_post("u1@mail", tx, TRUE)
    \/ /\ Len(started) < MaxPublish /\ gateway.requests < MaxRequests
       /\ GatewayRequest([Host |-> "gateway"], "users", ViewStatus("users"))
    \/ \E i \in 1..Len(started), fails \in BOOLEAN : Producer(i, fails)
    \/ BrokerFlip

SpecThreads ==
    /\ InitDispatch /\ [][NextThreads]_vars
    /\ \A i \in 1..MaxPublish : WF_vars(ProducerRuns(i))

\* The subscribing side: the notification events of one user, the threads
\* that publish them, the broker and the subscriber
NextConsumer ==
    \/ \E tx \in TransactionIds :
            /\ Len(started) < MaxThreads
            /\ ForgotPasswordResource_post("u1@mail", tx, TRUE)
    \/ \E i \in 1..Len(started), fails \in BOOLEAN : Producer(i, fails)
    \/ BrokerFlip
    \/ \E skip \in 0..MaxThreads, raises \in BOOLEAN : Consumer(skip, raises)

SpecConsumer == InitDispatch /\ [][NextConsumer]_vars

----------------------------------------------------------------------------
(* Concurrent requests: ResetPasswordResource.get and                      *)
(* ValidateEmailResource.get, one statement at a time                      *)

PathRoutes == {"ResetPasswordResource.get", "ValidateEmailResource.get"}

\* a request that has entered get(token): its local variables
NewHandler(route, token) ==
    [route |-> route, token |-> token, pc |-> "read",
     user_authenticated |-> NoResp, user |-> None, resp |-> NoResp]

\* the method returns
Returned(h, resp) == [h EXCEPT !.pc = "done", !.resp = resp]

\* what a statement of get(token) leaves behind
Step(h, c, ev) == [h |-> h, cache |-> c, email_valid |-> ev]

\* one statement of ResetPasswordResource.get or ValidateEmailResource.get
\* in the request h: cache.get, verify_token_email, get_by_email with the
\* test of email_valid, validate_email (ValidateEmailResource only),
\* cache.set with the return
get(h, db_ok) ==
    LET key == BlacklistKey(h.token)
        ua == verify_token_email(h.token)
        user == get_by_email(h.user_authenticated.email)
        reset == h.route = "ResetPasswordResource.get"
    IN  CASE h.pc = "read" ->
                IF CacheTruthy(cache_get(key))
                THEN Step(Returned(h, Resp("TOKEN_IS_INVALID", 401)),
                          cache, email_valid)
                ELSE Step([h EXCEPT !.pc = "verify"], cache, email_valid)
          [] h.pc = "verify" ->
                IF ~PyTruthy(ua)
                THEN Step(Returned(h, Resp("TOKEN_IS_INVALID", 401)),
                          cache, email_valid)
                ELSE IF ~HasItem(ua, "email")
                THEN Step(Returned(h, Resp("INTERNAL_SERVER_ERROR", 500)),
                          cache, email_valid)
                ELSE Step([h EXCEPT !.pc = "lookup",
                                    !.user_authenticated = ua],
                          cache, email_valid)
          [] h.pc = "lookup" ->
                IF user = None
                THEN Step(Returned(h, Resp("USER_NOT_FOUND", 404)),
                          cache, email_valid)
                ELSE IF reset /\ ~email_valid[user]
                THEN Step(Returned(h, Resp("USER_NON_VALIDATED_EMAIL", 400)),
                          cache, email_valid)
                ELSE IF ~reset /\ email_valid[user]
                THEN Step(Returned(h, Resp("USER_ALREADY_VALIDATED", 400)),
                          cache, email_valid)
                ELSE Step([h EXCEPT !.user = user,
                                    !.pc = IF reset THEN "write"
                                           ELSE "validate"],
                          cache, email_valid)
          [] h.pc = "validate" ->
                IF ~db_ok
                THEN Step(Returned(h, Resp("INTERNAL_SERVER_ERROR", 500)),
                          cache, email_valid)
                ELSE Step([h EXCEPT !.pc = "write"], cache,
                          [email_valid EXCEPT ![h.user] = TRUE])
          [] h.pc = "write" ->
                Step(Returned(h, Resp("USER_VALIDATED_SUCCESSFULLY", 200)),
                     cache_set(cache, key, h.token, BLACKLIST_TIMEOUT),
                     email_valid)

\* a request enters get(token)
StartRequest(route, token) ==
    /\ Len(inflight) < MaxHandlers
    /\ inflight' = Append(inflight, NewHandler(route, token))
    /\ UNCHANGED <<now, default_timeout, cache, email_valid, issued, signed,
                   started, logged_out, consumed, last>>
    /\ UNCHANGED <<broker, flips, channel, printed, subscriber, gateway>>

\* the request i runs its next statement
Handler(i, db_ok) ==
    LET left == get(inflight[i], db_ok)
    IN  /\ inflight[i].pc # "done"
        /\ inflight[i].pc # "validate" => db_ok
        /\ inflight' = [inflight EXCEPT ![i] = left.h]
        /\ cache' = left.cache
        /\ email_valid' = left.email_valid
        /\ consumed' = IF left.h.resp.status = 200
                       THEN consumed \cup {left.h.token} ELSE consumed
        /\ UNCHANGED <<now, default_timeout, issued, signed, started,
                       logged_out, last>>
        /\ UNCHANGED <<broker, flips, channel, printed, subscriber, gateway>>

\* The action tokens of the users, presented by requests that run
\* concurrently
NextRace ==
    \/ \E email \in UserEmails :
            /\ Within(MaxTokens, MaxTime)
            /\ ForgotPasswordResource_post(email, None, TRUE)
    \/ \E email \in UserEmails :
            /\ Within(MaxTokens, MaxTime)
            /\ SendEmailValidationResource_post(email, None, TRUE)
    \/ \E route \in PathRoutes, token \in Tokens : StartRequest(route, token)
    \/ \E i \in 1..Len(inflight), db_ok \in BOOLEAN : Handler(i, db_ok)

SpecRace == Init /\ [][NextRace]_vars

----------------------------------------------------------------------------
(* Sessions: the users log in, read their own data and log out *)

SessionRoutes == {"UserMeResource.get", "ValidateTokenResource.get",
                  "LogoutResource.get"}

NextSession ==
    \/ \E email \in UserEmails :
            /\ last = NoLast /\ Within(MaxSessions, MaxSessionTime)
            /\ LoginResource_post(email, TRUE, TRUE)
    \/ \E route \in SessionRoutes, headers \in LongHeaderSets :
            last = NoLast /\ Guarded(route, headers)
    \/ last = NoLast /\ now < MaxSessionTime /\ Tick
    \/ Deliver

SpecSession == Init /\ [][NextSession]_vars

----------------------------------------------------------------------------
(* Path tokens: every string a client can put in the URL *)

\* an action token of a user who has been deleted since it was issued
GoneToken ==
    jwt_encode(SetItem([email |-> "nobody@mail"], "exp",
                       Datetime(ACCESS_TOKEN_EXPIRE)),
               SECRET_KEY)

\* the <string:token> segments: the token strings, and the issued tokens
\* behind the text 'Bearer '
PathTokens ==
    Presentable \cup {GoneToken} \cup {<<Bearer>> \o t : t \in Tokens}

NextPath ==
    \/ \E email \in UserEmails :
            /\ last = NoLast /\ Within(MaxTokens, MaxTime)
            /\ ForgotPasswordResource_post(email, None, TRUE)
    \/ \E email \in UserEmails :
            /\ last = NoLast /\ Within(MaxTokens, MaxTime)
            /\ SendEmailValidationResource_post(email, None, TRUE)
    \/ \E token \in PathTokens : last = NoLast /\ ResetPassword(token)
    \/ \E token \in PathTokens, db_ok \in BOOLEAN :
            last = NoLast /\ ValidateEmail(token, db_ok)
    \/ Deliver

SpecPath == Init /\ [][NextPath]_vars

----------------------------------------------------------------------------
(* Properties *)

GuardedReq == last.route \in Routes

PathReq ==
    last.route \in {"ResetPasswordResource.get", "ValidateEmailResource.get"}

HasAuth == "Authorization" \in DOMAIN last.headers

WellFormed == HasAuth /\ startswith(last.headers.Authorization, Bearer)

Invalid401 == Resp("TOKEN_IS_INVALID", 401)

\* the service signed t: create_token returned it
Authentic(t) == t \in Tokens \cup {OldToken}

IssuedOn(t) == IF t \in Tokens THEN issued[t] ELSE 0 - (ACCESS_TOKEN_EXPIRE + 1)

\* the expiration instant: issuance time + 30 days
Expiry(t) == IssuedOn(t) + ACCESS_TOKEN_EXPIRE

\* correctly signed and not expired at the time of the last request
Live(t) == Authentic(t) /\ now < Expiry(t)

\* a token of ForgotPasswordResource.post or SendEmailValidationResource.post
ActionToken(t) == t \in Tokens /\ "uuid" \notin DOMAIN t[1].payload

\* C1: a correctly signed, unexpired token is accepted by verify_token while
\* no blacklist entry exists for it; once LogoutResource.get has answered 200
\* with it, and while the entry is present, every request bearing it is
\* answered 401 TOKEN_IS_INVALID and nothing the guard wraps is invoked.
Thm_C1 ==
    GuardedReq /\ WellFormed =>
        /\ Live(last.token) /\ ~last.black => last.auth
        /\ last.was_logged_out /\ last.black =>
                last.resp = Invalid401 /\ ~last.auth /\ ~last.ran

Witness_C1 ==
    /\ GuardedReq /\ WellFormed
    /\ last.was_logged_out /\ last.black /\ Authentic(last.token)
    /\ now < Expiry(last.token)
    /\ last.resp = Invalid401

\* C2 (as claimed): after LogoutResource.get answered 200 with token T,
\* verify_token never accepts T again before T's own expiration instant.
Cex_C2 ==
    GuardedReq /\ WellFormed /\ last.was_logged_out
               /\ Authentic(last.token) /\ now < Expiry(last.token)
        => ~last.auth

\* C3 (as claimed): an action token consumed by one successful
\* ResetPasswordResource.get or ValidateEmailResource.get is rejected with
\* 401 TOKEN_IS_INVALID by every later request presenting it while it is
\* unexpired.
Cex_C3 ==
    PathReq /\ last.was_consumed /\ ActionToken(last.token)
            /\ now < Expiry(last.token)
        => last.resp = Invalid401

\* C4: a request through verify_token ends in exactly one outcome, decided in
\* this order: no Authorization header, 401 TOKEN_IS_MISSING; header not
\* starting with 'Bearer ', 401 INVALID_TOKEN_FORMAT; key blacklisted, 401
\* TOKEN_IS_INVALID; decode fails, 401 TOKEN_IS_INVALID; otherwise
\* authenticated.  The wrapped function is invoked exactly when the request
\* is authenticated, with the decoded claim set as its first argument.
Thm_C4 ==
    GuardedReq =>
        /\ CASE ~HasAuth ->
                    last.resp = Resp("TOKEN_IS_MISSING", 401) /\ ~last.auth
             [] HasAuth /\ ~WellFormed ->
                    last.resp = Resp("INVALID_TOKEN_FORMAT", 401) /\ ~last.auth
             [] WellFormed /\ last.black ->
                    last.resp = Invalid401 /\ ~last.auth
             [] WellFormed /\ ~last.black /\ ~Live(last.token) ->
                    last.resp = Invalid401 /\ ~last.auth
             [] OTHER ->
                    last.auth /\ last.args = <<last.token[1].payload>>
        /\ last.ran => last.auth /\ last.hargs[1] = last.token[1].payload

Witness_C4 ==
    /\ GuardedReq /\ last.auth /\ last.ran
    /\ last.hargs = <<last.token[1].payload>>
    /\ last.resp.status = 200

\* why the guard turned the last request down
Revoked == WellFormed /\ last.black

Expired ==
    /\ WellFormed /\ ~last.black
    /\ Authentic(last.token) /\ now >= Expiry(last.token)

BadSignature == WellFormed /\ ~last.black /\ last.token = ForgedToken

Malformed == WellFormed /\ ~last.black /\ last.token \in {<<>>, <<Garbage>>}

\* C5: whichever check fails in verify_token (revoked, expired, signature
\* mismatch, malformed token), the caller sees one and the same response,
\* 401 TOKEN_IS_INVALID: any two such requests get identical responses.
Thm_C5 ==
    GuardedReq /\ (Revoked \/ Expired \/ BadSignature \/ Malformed)
        => last.resp = Invalid401

Witness_C5 == GuardedReq /\ Expired /\ last.resp = Invalid401

\* C6 (as claimed): a path token that is not blacklisted and fails
\* verification in verify_token_email gets 401 TOKEN_IS_INVALID from
\* ResetPasswordResource.get and ValidateEmailResource.get, never a 500, and
\* the user is not looked up.
Cex_C6 ==
    PathReq /\ ~last.black /\ ~Live(last.token)
        => last.resp = Invalid401 /\ ~last.lookup

\* C7: admin_required, given the decoded claim set, returns 401
\* UNAUTHORIZED_USER without invoking the handler when is_admin is false, and
\* invokes the handler with the same arguments when is_admin is true.
Thm_C7 ==
    last.route \in AdminRoutes /\ last.auth
                               /\ "is_admin" \in DOMAIN last.args[1]
        => IF last.args[1].is_admin
           THEN last.ran /\ last.hargs = last.args
           ELSE last.resp = Resp("UNAUTHORIZED_USER", 401) /\ ~last.ran

Witness_C7 ==
    /\ last.route \in AdminRoutes /\ last.auth
    /\ "is_admin" \in DOMAIN last.args[1] /\ ~last.args[1].is_admin
    /\ last.resp = Resp("UNAUTHORIZED_USER", 401)

\* the last request passes authentication: header present and well formed,
\* token not revoked, correctly signed and not expired
Authenticates == WellFormed /\ ~last.black /\ Live(last.token)

\* C8: on a route decorated with verify_token then admin_required the
\* handler body runs only for a request that passes authentication and
\* carries is_admin true; a request failing authentication is rejected with
\* an authentication reason, never with UNAUTHORIZED_USER.
Thm_C8 ==
    last.route \in AdminRoutes =>
        /\ last.ran =>
                /\ Authenticates
                /\ "is_admin" \in DOMAIN last.token[1].payload
                /\ last.token[1].payload.is_admin
        /\ ~Authenticates =>
                /\ ~last.ran
                /\ last.resp \in {Resp("TOKEN_IS_MISSING", 401),
                                  Resp("INVALID_TOKEN_FORMAT", 401),
                                  Invalid401}

Witness_C8 ==
    /\ last.route \in AdminRoutes /\ WellFormed
    /\ last.token = ForgedToken /\ last.token[1].payload.is_admin
    /\ last.resp = Invalid401 /\ ~last.ran

\* C9: a token presented to verify_token or to verify_token_email after its
\* expiration instant (issuance + 30 days) is rejected as an invalid token;
\* before that instant an un-revoked token the service issued is accepted.
Thm_C9 ==
    /\ GuardedReq /\ WellFormed /\ last.token \in Tokens =>
            /\ now > Expiry(last.token) => last.resp = Invalid401 /\ ~last.auth
            /\ now < Expiry(last.token) /\ ~last.black => last.auth
    /\ PathReq /\ last.token \in Tokens /\ ~last.black =>
            /\ now > Expiry(last.token) => last.vte = Invalid401
            /\ now < Expiry(last.token) => last.vte = last.token[1].payload

Witness_C9 ==
    /\ GuardedReq /\ WellFormed /\ last.token \in Tokens
    /\ now > Expiry(last.token) /\ ~last.black
    /\ last.resp = Invalid401

RequiredClaims == {"uuid", "is_admin", "exp"}

\* C10 (as claimed): every claim set create_token signs, and so every claim
\* set verify_token hands on, holds a subject identifier (uuid), an
\* administrator flag (is_admin) and an expiration instant (exp).
Cex_C10 ==
    /\ \A t \in Tokens : RequiredClaims \subseteq DOMAIN t[1].payload
    /\ GuardedReq /\ last.auth => RequiredClaims \subseteq DOMAIN last.args[1]

\* the claim set create_token was given for t, plus exp = issuance + 30 days
RoundTrip(t) == SetItem(signed[t], "exp", issued[t] + ACCESS_TOKEN_EXPIRE)

SameApartFromExpiry(c, b, key) ==
    /\ DOMAIN c = DOMAIN b
    /\ \A k \in DOMAIN b : c[k].value = b[k].value
    /\ \A k \in DOMAIN b \ {key} : c[k] = b[k]

----------------------------------------------------------------------------
(* Properties of event dispatch *)

Threads == 1..Len(started)

\* the copies of thread i's record on the channel
Copies(i) == {n \in 1..Len(channel) : channel[n].thread = i}

\* what producer printed in thread i
PrintedBy(i) ==
    {n \in 1..Len(printed) :
        printed[n].by = "producer" /\ printed[n].thread = i}

\* C13: if the broker client raises while producer connects, sends, flushes
\* or closes, producer returns normally (no exception leaves the call) and
\* the failure is recorded by a print entry.
Thm_C13 ==
    /\ [](\A i \in Threads : started[i].pc # "raised")
    /\ [][\A i \in Threads :
            Producer(i, TRUE) =>
                /\ started'[i].pc = "done"
                /\ printed' = Append(printed,
                                     [by |-> "producer", thread |-> i,
                                      error |-> ClientError(started[i].pc)])
         ]_vars

Witness_C13 ==
    \E i \in Threads :
        /\ started[i].pc = "done"
        /\ \E n \in PrintedBy(i) : printed[n].error = "KafkaTimeoutError"

\* C14: the response of a request that emits an event (the audit event of
\* register_request_log, the notification events of
\* ForgotPasswordResource.post and SendEmailValidationResource.post) is the
\* same whether the broker is available, unavailable or failing, and it is
\* returned without waiting for the publish: when the request returns, the
\* thread has only been started.
Thm_C14 ==
    /\ [](/\ last.route = "ForgotPasswordResource.post" =>
                last.resp = IF get_by_email(last.email) = None
                            THEN Resp("USER_NOT_FOUND", 404)
                            ELSE Resp("EMAIL_SENT_SUCCESSFULLY", 200)
          /\ last.route = "SendEmailValidationResource.post" =>
                last.resp = IF get_by_email(last.email) = None
                            THEN Resp("USER_NOT_FOUND", 404)
                            ELSE IF email_valid[get_by_email(last.email)]
                            THEN Resp("USER_ALREADY_VALIDATED", 400)
                            ELSE Resp("EMAIL_SENT_SUCCESSFULLY", 200)
          /\ gateway.endpoint # "-" =>
                gateway.returned = ViewStatus(gateway.endpoint))
    /\ [][Len(started') > Len(started) =>
                /\ started'[Len(started')].pc = "connect"
                /\ channel' = channel /\ printed' = printed
         ]_vars

Witness_C14 ==
    /\ broker = "down"
    /\ last.route = "ForgotPasswordResource.post"
    /\ last.resp = Resp("EMAIL_SENT_SUCCESSFULLY", 200)
    /\ started[Len(started)].pc = "connect"

\* C15: each call of producer places at most one copy of its record on the
\* channel; the dispatcher never sends a record again, and a record that
\* fails between send and the broker's acknowledgment is lost, not retried.
Thm_C15 ==
    /\ [](\A i \in Threads : Cardinality(Copies(i)) <= 1)
    /\ [][\A i \in Threads :
            started[i].pc \in {"done", "raised"} =>
                /\ started'[i] = started[i]
                /\ Cardinality({n \in 1..Len(channel') :
                                    channel'[n].thread = i})
                        = Cardinality(Copies(i))
         ]_vars

Witness_C15 ==
    \E i \in Threads :
        /\ started[i].pc = "done"
        /\ Copies(i) = {} /\ PrintedBy(i) = {}

\* C16 (as claimed): two events published with the same key on the same
\* channel from one process reach the subscriber's handler in the order of
\* the publish calls, under every interleaving of the threads.
Cex_C16 ==
    \A a, b \in 1..Len(subscriber.handled) :
        a < b /\ subscriber.handled[a].key = subscriber.handled[b].key
            => subscriber.handled[a].thread < subscriber.handled[b].thread

\* the offsets for which callback has been called
Handled == {subscriber.handled[n].offset : n \in 1..Len(subscriber.handled)}

\* C17 (as claimed): while consumer runs, every record that arrives on the
\* subscribed channel is passed to the callback exactly once, in arrival
\* order, with the key and payload that were published; no record is
\* consumed without a call of the callback.
Cex_C17 ==
    /\ \A n \in 1..subscriber.position :
            \/ n \in Handled
            \/ /\ subscriber.pc \in {"poll", "callback"}
               /\ subscriber.message.offset = n
    /\ \A n \in 1..Len(subscriber.handled) :
            LET h == subscriber.handled[n]
            IN  /\ h.key = started[h.thread].args.key
                /\ h.msg = started[h.thread].args.value
                /\ \A k \in 1..Len(subscriber.handled) :
                        k < n => subscriber.handled[k].offset < h.offset

\* C18 (as claimed): if the callback raises for a record, consumer catches
\* and prints the failure, drops that record and goes on to call the
\* callback for the later records.
Cex_C18 ==
    \A n \in 1..Len(subscriber.handled) :
        subscriber.handled[n].raised =>
            /\ \E k \in 1..Len(printed) : printed[k].by = "consumer"
            /\ subscriber.pc \in {"iterate", "poll", "callback"}

\* C19 (as claimed): consumer repeats the probe without bound and does not
\* subscribe while it fails; once the broker is available and stays
\* available the subscriber leaves the wait loop, subscribes and handles
\* records.  A subscriber that has left the wait loop and has returned
\* without subscribing never subscribes.
Cex_C19 ==
    subscriber.pc \in {"returned", "raised"} => subscriber.position > 0

\* the identifier of the gateway's last request was drawn by uuid4
Generated ==
    /\ gateway.generated > 0
    /\ gateway.transaction_id = uuid4(gateway.generated)
    /\ \A i \in Threads \ {gateway.thread} :
            started[i].args.value.transaction_id # gateway.transaction_id

\* the identifier is set once, and the audit event of the request, which
\* every endpoint but health emits, carries it
SetOnceAndLogged ==
    /\ gateway.assigned = 1
    /\ (gateway.endpoint # "health") = (gateway.thread # 0)
    /\ gateway.thread # 0 =>
            /\ started[gateway.thread].args.topic = "TOPIC_REQUESTS_LOG"
            /\ started[gateway.thread].args.value.transaction_id =
                    gateway.transaction_id

\* C20 (as claimed): after add_transaction_id the request's correlation id
\* equals the inbound X-TRANSACTION-ID header value when that header is
\* present, and otherwise is a newly generated identifier; it is set once
\* and the audit event of the request carries it.
Cex_C20 ==
    gateway.endpoint # "-" =>
        /\ IF "X-TRANSACTION-ID" \in DOMAIN gateway.headers
           THEN gateway.transaction_id = gateway.headers["X-TRANSACTION-ID"]
           ELSE Generated
        /\ SetOnceAndLogged

\* C20 (amended): the correlation id equals the inbound X-TRANSACTION-ID
\* header value when that header is present and not empty; when the header
\* is absent or empty it is a newly generated identifier.  It is set once
\* per request and the audit event of the request carries it.
Thm_C20 ==
    /\ [](gateway.endpoint # "-" =>
            /\ IF /\ "X-TRANSACTION-ID" \in DOMAIN gateway.headers
                  /\ gateway.headers["X-TRANSACTION-ID"] # ""
               THEN gateway.transaction_id =
                        gateway.headers["X-TRANSACTION-ID"]
               ELSE Generated
            /\ SetOnceAndLogged)
    /\ [][gateway'.generated # gateway.generated =>
                /\ gateway'.generated = gateway.generated + 1
                /\ gateway'.transaction_id = uuid4(gateway'.generated)
         ]_vars

Witness_C20 ==
    /\ gateway.endpoint = "users"
    /\ "X-TRANSACTION-ID" \in DOMAIN gateway.headers
    /\ gateway.headers["X-TRANSACTION-ID"] = ""
    /\ gateway.transaction_id = uuid4(gateway.generated)
    /\ started[gateway.thread].args.value.transaction_id = "uuid4-1"

\* the channels of the notification events
NotificationTopics ==
    {"TOPIC_SEND_EMAIL_RECOVERY_PASSWORD", "TOPIC_SEND_EMAIL_VALIDATION_ACCOUNT"}

\* C21 (as claimed): the transaction_id of every notification event
\* published by ForgotPasswordResource.post and
\* SendEmailValidationResource.post is never null, also when the inbound
\* request carried no X-TRANSACTION-ID header.
Cex_C21 ==
    \A i \in Threads :
        started[i].args.topic \in NotificationTopics
            => started[i].args.value.transaction_id # None

\* the arguments of the thread started for the gateway's last request
AuditEvent ==
    [topic |-> "TOPIC_REQUESTS_LOG", key |-> "gateway",
     value |-> [service |-> "gateway",
                transaction_id |-> gateway.transaction_id,
                endpoint |-> CASE gateway.endpoint = "users" -> "/users/"
                               [] gateway.endpoint = None -> "NOT_FOUND",
                status |-> gateway.status]]

\* C22: for every completed request to a route other than the health probe
\* register_request_log starts exactly one publish of an audit event for
\* that request (for an unmatched route with endpoint NOT_FOUND); for a
\* request to the health route it starts none; the response is returned
\* unchanged in both cases.
Thm_C22 ==
    /\ [](gateway.endpoint # "-" =>
            /\ gateway.returned = gateway.status
            /\ IF gateway.endpoint = "health"
               THEN gateway.thread = 0
               ELSE /\ gateway.thread \in Threads
                    /\ started[gateway.thread].args = AuditEvent)
    /\ [][gateway'.requests # gateway.requests =>
                /\ gateway'.requests = gateway.requests + 1
                /\ IF gateway'.endpoint = "health"
                   THEN started' = started
                   ELSE /\ Len(started') = Len(started) + 1
                        /\ gateway'.thread = Len(started')
                        /\ SubSeq(started', 1, Len(started)) = started
         ]_vars

Witness_C22 ==
    /\ gateway.endpoint = None /\ gateway.returned = 404
    /\ gateway.thread \in Threads
    /\ started[gateway.thread].args.value.endpoint = "NOT_FOUND"
    /\ started[gateway.thread].pc = "connect"

IssuingReq ==
    last.route \in {"LoginResource.post", "ForgotPasswordResource.post",
                    "SendEmailValidationResource.post"}

\* C23 (as claimed): if signing fails inside create_token, no token value
\* is returned to the caller and the issuing request (LoginResource.post,
\* ForgotPasswordResource.post, SendEmailValidationResource.post) answers
\* with a server-error status, not with a client error or a success.
Cex_C23 ==
    IssuingReq /\ last.signing_failed =>
        /\ last.resp.status >= 500
        /\ "token" \notin DOMAIN last.resp.body

\* C24 (as claimed): once consumer has been started it never terminates on
\* its own: in every reachable state it is waiting for the broker or
\* consuming, also after a broker error raised while it connects after the
\* probe.
Cex_C24 ==
    \/ subscriber.pc \in {"probe", "sleep"}
    \/ subscriber.pc \in {"connect", "iterate", "poll", "callback"}

\* how far a thread is in producer
Rank(pc) ==
    CASE pc = "connect" -> 0
      [] pc = "send" -> 1
      [] pc = "flush" -> 2
      [] pc = "close" -> 3
      [] OTHER -> 4

Terminated(i) == started[i].pc \in {"done", "raised"}

\* C25: every thread started for one publish terminates after at most one
\* connect/send/flush/close attempt, whether the broker is available or
\* not: producer only moves forward, a statement at which the client
\* raises is its last one (it neither waits for the broker nor tries
\* again), and a thread that runs reaches the end of producer.
Thm_C25 ==
    /\ [][\A i \in Threads :
            /\ started'[i].pc # started[i].pc =>
                    Rank(started'[i].pc) > Rank(started[i].pc)
            /\ Producer(i, TRUE) => started'[i].pc \in {"done", "raised"}
         ]_vars
    /\ \A i \in 1..MaxPublish :
            [](i <= Len(started) => <>(i <= Len(started) /\ Terminated(i)))

Witness_C25 ==
    \E i \in Threads :
        /\ broker = "down" /\ flips = 0
        /\ Terminated(i)
        /\ \E n \in PrintedBy(i) : printed[n].error = "NoBrokersAvailable"

\* the requests a and b presented the same token on the same route and
\* both returned the success response
BothSucceeded(a, b) ==
    /\ inflight[a].route = inflight[b].route
    /\ inflight[a].token = inflight[b].token
    /\ inflight[a].resp.status = 200 /\ inflight[b].resp.status = 200

\* C26 (as claimed): when two requests presenting the same valid, not yet
\* consumed action token run ResetPasswordResource.get (or
\* ValidateEmailResource.get) concurrently, at most one of them returns the
\* success response, under every interleaving of their blacklist read,
\* token verification and blacklist write.
Cex_C26 ==
    \A a, b \in 1..Len(inflight) : a # b => ~BothSucceeded(a, b)

\* another presentation of the token t has been consumed: a string that
\* verify_token_email verifies as the same token
OtherConsumed(t) == \E c \in consumed \ {t} : replace(c) = replace(t)

\* C27 (as claimed): the string that builds the BLACKLIST_TOKEN_ key is the
\* string that is verified, so the bare token and the token prefixed with
\* 'Bearer ' map to the same key and consuming one presentation blocks the
\* other.
Cex_C27 ==
    PathReq /\ OtherConsumed(last.token) =>
        /\ last.resp.status # 200
        /\ BlacklistKey(last.token) = BlacklistKey(replace(last.token))

Cex_C28 ==
    last.route = "UserMeResource.get" /\ last.auth /\ last.resp.status = 200
        => last.resp.body.user = user_schema_dump(last.args[1])

\* verify_token accepts the token t
Accepted(t) == verify_token(WithAuth(<<Bearer>> \o t)).kind = "call"

\* C29: LogoutResource.get with token T writes the single entry
\* BLACKLIST_TOKEN_T and leaves every other entry of the store as it was,
\* so every other token verify_token accepted before, other tokens of the
\* same user included, is accepted afterwards.
Thm_C29 ==
    [][last'.route = "LogoutResource.get" /\ last' # last =>
            /\ \A k \in (DOMAIN cache \cup DOMAIN cache')
                            \ {BlacklistKey(last'.token)} :
                    /\ k \in DOMAIN cache /\ k \in DOMAIN cache'
                    /\ cache'[k] = cache[k]
            /\ last'.resp.status = 200 =>
                    /\ BlacklistKey(last'.token) \in DOMAIN cache'
                    /\ cache'[BlacklistKey(last'.token)].value = last'.token
            /\ \A t \in Tokens \ {last'.token} : Accepted(t) => Accepted(t)'
     ]_vars

Witness_C29 ==
    /\ last.route = "LogoutResource.get" /\ last.resp.status = 200
    /\ \E t \in Tokens \ {last.token} :
            /\ t[1].payload.uuid = last.token[1].payload.uuid
            /\ Accepted(t)
            /\ BlacklistKey(t) \notin DOMAIN cache

====
